---- MODULE Spec2Model ----
(***************************************************************************)
(* Model of TEMPer.py: a supervisor loop that searches for a TEMPer HID    *)
(* thermometer, opens it, polls it (write, settle, read, decode, print,    *)
(* sleep) and, on any failure, closes the handle and searches again.       *)
(*                                                                         *)
(* One action is one statement (or one library call) of the program; pc    *)
(* names the statement that runs next.  The HID library and the terminal   *)
(* (KeyboardInterrupt) are the environment: their results are chosen with  *)
(* \E from bounded sets.  Temperatures are kept in units of 1/256 degree   *)
(* Celsius, which is exact because the program divides a 16-bit integer by *)
(* 256.0.  Durations are in milliseconds.                                  *)
(***************************************************************************)
EXTENDS Integers, Sequences, FiniteSets, TLC

(* ------------------------------ bounds -------------------------------- *)
\* handles the model tracks at once (a record is reused once its handle is dead)
MaxHandles == 2
\* longest list hid.enumerate returns
MaxDevices == 2
\* longest reply dev.read returns in the model (the program asks for READ_LEN)
MaxRead == 9

(* ------------------------- program constants -------------------------- *)
USAGE_PAGE_SENSOR == 65280
USAGE_SENSOR == 1
SCALE == 1
OFFSET == 0
\* a report that is the whole frame read
REPORT_LEN_Untruncated == 64
\* data[:8]
REPORT_LEN == 8
\* len(data) < 4
MIN_REPORT_LEN == 4
\* 1/256 degree units per degree: temp_raw / 256.0
UNITS == 256
\* -40.0 <= temp_c <= 125.0
PLAUSIBLE_MIN == -40
PLAUSIBLE_MAX == 125
\* time.sleep arguments, in ms
NOTFOUND_SLEEP_MS == 2000
SETTLE_SLEEP_MS == 100
CADENCE_SLEEP_MS == 1000
IO_BACKOFF_MS == 1000
EXC_BACKOFF_MS == 2000

VARIABLES
    pc,          \* the statement main executes next
    dev,         \* main's dev: 0 is None, else a handle id
    odev,        \* open_temper's local dev once open_path returned: 0 or a handle id
    devices,     \* open_temper's local devices (the enumeration), <<>> outside it
    d,           \* index in devices of the descriptor the for loop stopped at, 0 if none
    handles,     \* handle id -> what happened to that HID handle
    data,        \* read_temperature's local data (the reply as read)
    raw,         \* main's raw (data8) after a successful read_temperature
    temp_c,      \* main's temp_c, in 1/256 degree
    out,         \* the reading line printed last in this exchange
    exc,         \* the exception being handled or propagating
    exit,        \* "running", or how main ended: "normal" / "raised"
    sleepLog,    \* the sleeps since the last search or exchange began
    steps,       \* the I/O steps of the current exchange
    ioArgs,      \* the argument of each of these steps: frame length, or ms
    stable,      \* the environment has stopped failing and interrupting
    everMatched, \* some enumeration contained a matching descriptor
    everIO,      \* some write or read was issued
    searched,    \* open_temper was called at least once
    intLog,      \* the statements at which a KeyboardInterrupt was delivered, in order
    everRecovered \* an except clause of the inner try ran to its end

vars == <<pc, dev, odev, devices, d, handles, data, raw, temp_c, out, exc, exit,
          sleepLog, steps, ioArgs, stable, everMatched, everIO, searched,
          intLog, everRecovered>>

Handles == 1..MaxHandles
None == 0
NoExc == [cls |-> "none", origin |-> "none", h |-> 0, arg |-> <<>>]
NoOut == [kind |-> "none", value |-> 0, raw |-> <<>>]
FreeHandle == [st |-> "free", closes |-> 0, invalid |-> FALSE, path |-> 0]

(* --------------------------- exception classes ------------------------ *)
\* the Python class hierarchy the except clauses test against
Parent(c) ==
    CASE c = "OSError" -> "Exception"
      [] c = "ValueError" -> "Exception"
      [] c = "RuntimeError" -> "Exception"
      [] c = "struct.error" -> "Exception"
      [] c = "Exception" -> "BaseException"
      [] c = "KeyboardInterrupt" -> "BaseException"
      [] OTHER -> "object"

RECURSIVE IsSubclass(_, _)
IsSubclass(c, base) ==
    IF c = base THEN TRUE
    ELSE IF c = "object" THEN FALSE
    ELSE IsSubclass(Parent(c), base)

\* what a call into the hid library can raise
LibExcClasses == {"OSError", "ValueError", "RuntimeError"}

\* the statements inside the inner try (lines 88-94), read_temperature included
TryBody == {"rt_write", "rt_settle", "rt_read", "rt_decode", "print_reading",
            "cadence_sleep"}
\* the statements of the two except clauses of the inner try
HandlerPcs == {"io_close", "io_drop", "io_sleep", "ex_close", "ex_drop", "ex_sleep"}
\* the statements of the connect loop, open_temper included
SearchPcs == {"loop_head", "ot_enumerate", "ot_open_path", "ot_set_nonblocking",
              "ot_return", "notfound_sleep", "opened"}
\* everything inside the outer try (lines 75-116)
OuterBody == TryBody \cup HandlerPcs \cup SearchPcs

\* the inner try without its except Exception clause
InnerHandler_NoCatchAll(cls) ==
    IF IsSubclass(cls, "OSError") THEN "io_close" ELSE "none"

\* the catch-all clause placed before the OSError clause
InnerHandler_CatchAllFirst(cls) ==
    IF IsSubclass(cls, "Exception") THEN "ex_close" ELSE "none"

\* ValueError handled together with the I/O errors
InnerHandler_ValueErrorAsIO(cls) ==
    IF IsSubclass(cls, "OSError") \/ IsSubclass(cls, "ValueError") THEN "io_close"
    ELSE IF IsSubclass(cls, "Exception") THEN "ex_close"
    ELSE "none"

\* except (IOError, OSError) at line 96, except Exception at line 107
InnerHandler(cls) ==
    IF IsSubclass(cls, "OSError") THEN "io_close"
    ELSE IF IsSubclass(cls, "Exception") THEN "ex_close"
    ELSE "none"

\* except KeyboardInterrupt at line 118; everything else goes through finally
OuterHandler(cls) ==
    IF IsSubclass(cls, "KeyboardInterrupt") THEN "kbd_handler" ELSE "finally"

\* where control goes when an exception of class cls is raised at statement p
Catch(p, cls) ==
    IF p \in TryBody /\ InnerHandler(cls) # "none" THEN InnerHandler(cls)
    ELSE IF p \in OuterBody THEN OuterHandler(cls)
    ELSE IF p = "kbd_handler" THEN "finally"
    ELSE "done"


(* ------------------------------ decoding ------------------------------ *)
\* Python's s[a:b] for 0 <= a <= b
Slice(s, a, b) ==
    LET hi == IF b < Len(s) THEN b ELSE Len(s)
    IN  IF a + 1 > hi THEN <<>> ELSE SubSeq(s, a + 1, hi)

\* the bytes read as an unsigned short (">H")
unpack_h_Unsigned(bs) == bs[1] * 256 + bs[2]

\* struct.unpack(">h", bs)[0]: big-endian two's complement, the top bit of the
\* first byte weighs -32768
unpack_h(bs) ==
    (bs[1] % 128) * 256 + bs[2] - (bs[1] \div 128) * 32768

\* a length check that lets a 3-byte report through
TooShort_OffByOne(report) == Len(report) < MIN_REPORT_LEN - 1

\* the guard of line 39
TooShort(report) == Len(report) < MIN_REPORT_LEN

\* decode_temp_from_report: the result, or the class of the exception raised
decode_temp_from_report(report) ==
    IF TooShort(report)
    THEN [ok |-> FALSE, cls |-> "ValueError", val |-> None]
    ELSE LET bs == Slice(report, 2, 4)
         IN  IF Len(bs) # 2
             THEN [ok |-> FALSE, cls |-> "struct.error", val |-> None]
             ELSE [ok |-> TRUE, cls |-> "none",
                   val |-> unpack_h(bs) * SCALE + OFFSET * UNITS]

\* a window that excludes its two bounds
Plausible_Strict(t) == PLAUSIBLE_MIN * UNITS < t /\ t < PLAUSIBLE_MAX * UNITS

\* -40.0 <= temp_c <= 125.0 (line 90), in 1/256 degree
Plausible(t) == PLAUSIBLE_MIN * UNITS <= t /\ t <= PLAUSIBLE_MAX * UNITS

\* the line printed at 91 or 93
ReadingLine(t, r) ==
    [kind |-> IF Plausible(t) THEN "reading" ELSE "warn", value |-> t, raw |-> r]

(* ----------------------------- environment ---------------------------- *)
\* the descriptors hid.enumerate(VENDOR_ID, PRODUCT_ID) can list: the keyboard
\* interface, the sensor interface and the two mixed cases
Descriptors == [usage_page : {1, USAGE_PAGE_SENSOR}, usage : {USAGE_SENSOR, 6}]
Enumerations == UNION {[1..n -> Descriptors] : n \in 0..MaxDevices}

\* the test of line 24
Matches(desc) == desc.usage_page = USAGE_PAGE_SENSOR /\ desc.usage = USAGE_SENSOR

\* a loop that keeps the last matching descriptor instead of stopping at the
\* first
FirstMatch_Last(devs) ==
    IF \E i \in 1..Len(devs) :
          devs[i].usage_page = USAGE_PAGE_SENSOR /\ devs[i].usage = USAGE_SENSOR
    THEN CHOOSE i \in 1..Len(devs) :
            /\ devs[i].usage_page = USAGE_PAGE_SENSOR /\ devs[i].usage = USAGE_SENSOR
            /\ \A j \in (i + 1)..Len(devs) :
                  ~(devs[j].usage_page = USAGE_PAGE_SENSOR /\ devs[j].usage = USAGE_SENSOR)
    ELSE 0

\* the for loop of lines 23-24: the index it stops at, 0 when it runs to the end
RECURSIVE ScanFrom(_, _)
ScanFrom(devs, i) ==
    IF i > Len(devs) THEN 0
    ELSE IF Matches(devs[i]) THEN i
    ELSE ScanFrom(devs, i + 1)

FirstMatch(devs) == ScanFrom(devs, 1)

\* bytes 0-1, byte 2, byte 3 and the bytes after them of the replies tried
HdrBytes == {0, 128}
HiBytes == {0, 25, 125, 127, 128, 215, 216, 254}
LoBytes == {0, 255}
TailBytes == {200}

MkData(n, hd, b2, b3, tl) ==
    [i \in 1..n |-> IF i <= 2 THEN hd
                    ELSE IF i = 3 THEN b2
                    ELSE IF i = 4 THEN b3
                    ELSE (tl + i) % 256]

\* what dev.read(64, timeout_ms=1000) can return; <<>> is the timeout
ReadResults ==
    {MkData(n, hd, b2, b3, tl) :
        n \in 0..MaxRead, hd \in HdrBytes, b2 \in HiBytes, b3 \in LoBytes,
        tl \in TailBytes}

\* len(buf) after the padding of line 55
FRAME_LEN == 64
\* dev.read(64, timeout_ms=1000)
READ_TIMEOUT_MS == 1000
\* what dev.write(buf) can return
WriteResults == {-1, 0, FRAME_LEN}

(* ------------------------------- handles ------------------------------ *)
\* a handle is live while it is open, no close was attempted on it and no
\* I/O on it failed
Live(h) == handles[h].st = "open" /\ ~handles[h].invalid /\ handles[h].closes = 0

\* a record that can stand for a new handle: never used, or of a dead handle
\* that no variable refers to any more
Reusable(h) ==
    \/ handles[h].st = "free"
    \/ h \notin {dev, odev} /\ ~Live(h)

FreshHandle ==
    IF \E h \in Handles : handles[h].st = "free"
    THEN CHOOSE h \in Handles :
            /\ handles[h].st = "free"
            /\ \A g \in Handles : handles[g].st = "free" => h <= g
    ELSE CHOOSE h \in Handles :
            /\ Reusable(h)
            /\ \A g \in Handles : Reusable(g) => h <= g

\* dev.open_path(path) succeeded on record h
Opened(hs, h, path) ==
    [hs EXCEPT ![h] = [st |-> "open", closes |-> 0, invalid |-> FALSE, path |-> path]]

\* a handler that drops the handle without closing it
CloseAttempt_Skipped(hs, h, ok) == hs

\* dev.close() on handle h; ok is whether it returned (TRUE) or raised (FALSE)
CloseAttempt(hs, h, ok) ==
    [hs EXCEPT ![h] = [st |-> IF ok THEN "closed" ELSE hs[h].st,
                       closes |-> hs[h].closes + 1,
                       invalid |-> IF ok THEN hs[h].invalid ELSE TRUE,
                       path |-> hs[h].path]]

\* an I/O call on handle h failed
Invalidate(hs, h) ==
    [hs EXCEPT ![h] = [st |-> hs[h].st, closes |-> hs[h].closes, invalid |-> TRUE,
                       path |-> hs[h].path]]

(* ------------------------------- raising ------------------------------ *)
\* an exception of class cls is raised at the current statement: control goes
\* to the except clause that matches, the frames left lose their locals.  h is
\* the handle main held, arg the report the message of line 40 quotes
Throw(cls, origin, arg) ==
    /\ pc' = Catch(pc, cls)
    /\ exc' = [cls |-> cls, origin |-> origin, h |-> dev, arg |-> arg]
    /\ exit' = IF Catch(pc, cls) = "done" THEN "raised" ELSE exit
    /\ odev' = None
    /\ devices' = <<>>
    /\ d' = 0
    /\ data' = <<>>
    /\ raw' = <<>>
    /\ temp_c' = None
    /\ out' = NoOut


(* -------------------------------- Init -------------------------------- *)
\* line 73: dev = None, nothing opened, nothing printed
Init ==
    /\ pc = "loop_head"
    /\ dev = None
    /\ odev = None
    /\ devices = <<>>
    /\ d = 0
    /\ handles = [h \in Handles |-> FreeHandle]
    /\ data = <<>>
    /\ raw = <<>>
    /\ temp_c = None
    /\ out = NoOut
    /\ exc = NoExc
    /\ exit = "running"
    /\ sleepLog = <<>>
    /\ steps = <<>>
    /\ ioArgs = <<>>
    /\ stable = FALSE
    /\ everMatched = FALSE
    /\ everIO = FALSE
    /\ searched = FALSE
    /\ intLog = <<>>
    /\ everRecovered = FALSE

history == <<stable, everMatched, everIO, searched, intLog, everRecovered>>
otLocals == <<odev, devices, d>>
rtLocals == <<data, raw, temp_c, out>>

(* ------------------------- the connect loop --------------------------- *)
\* a loop that searches on every pass, whether or not a handle is held
NeedsConnect_Always(dv) == TRUE

\* the test of line 78: while dev is None
NeedsConnect(dv) == dv = None

\* lines 76-80: while True / while dev is None: with no handle, print and call
\* open_temper; with a handle, enter the try of line 88
LoopHead ==
    /\ pc = "loop_head"
    /\ IF NeedsConnect(dev)
       THEN /\ pc' = "ot_enumerate"
            /\ searched' = TRUE
            /\ sleepLog' = <<>>
       ELSE /\ pc' = "rt_write"
            /\ UNCHANGED <<searched, sleepLog>>
    /\ UNCHANGED <<dev, handles, exc, exit, steps, ioArgs, stable, everMatched, everIO,
                   intLog, everRecovered>>
    /\ UNCHANGED otLocals
    /\ UNCHANGED rtLocals

\* lines 22-24 and 30: enumerate, run the for loop to the first match, return
\* None when it ends without one (the list is kept until main has tested the
\* result at line 81)
Enumerate ==
    /\ pc = "ot_enumerate"
    /\ \E devs \in Enumerations :
        /\ stable => FirstMatch(devs) # 0
        /\ IF FirstMatch(devs) = 0
           THEN /\ pc' = "notfound_sleep"
                /\ devices' = devs
                /\ UNCHANGED <<d, everMatched>>
           ELSE /\ pc' = "ot_open_path"
                /\ devices' = devs
                /\ d' = FirstMatch(devs)
                /\ everMatched' = TRUE
    /\ UNCHANGED <<dev, odev, handles, exc, exit, sleepLog, steps, ioArgs, stable, everIO,
                   searched, intLog, everRecovered>>
    /\ UNCHANGED rtLocals

\* lines 26-27: dev = hid.device(); dev.open_path(d["path"]) returns
OpenPathOk ==
    /\ pc = "ot_open_path"
    /\ \E h \in Handles : Reusable(h)
    /\ handles' = Opened(handles, FreshHandle, d)
    /\ odev' = FreshHandle
    /\ pc' = "ot_set_nonblocking"
    /\ UNCHANGED <<dev, devices, d, exc, exit, sleepLog, steps, ioArgs>>
    /\ UNCHANGED history
    /\ UNCHANGED rtLocals

\* line 27: dev.open_path raises; nothing in open_temper or in the connect
\* loop catches it
OpenPathRaises ==
    /\ pc = "ot_open_path"
    /\ ~stable
    /\ \E cls \in LibExcClasses : Throw(cls, "open_path", <<>>)
    /\ UNCHANGED <<dev, handles, sleepLog, steps, ioArgs>>
    /\ UNCHANGED history

\* line 28: dev.set_nonblocking(False) returns
SetNonblockingOk ==
    /\ pc = "ot_set_nonblocking"
    /\ pc' = "ot_return"
    /\ UNCHANGED <<dev, handles, exc, exit, sleepLog, steps, ioArgs>>
    /\ UNCHANGED history
    /\ UNCHANGED otLocals
    /\ UNCHANGED rtLocals

\* line 28: dev.set_nonblocking raises; the handle open_path opened is only
\* known to the frame that is left
SetNonblockingRaises ==
    /\ pc = "ot_set_nonblocking"
    /\ ~stable
    /\ \E cls \in LibExcClasses : Throw(cls, "set_nonblocking", <<>>)
    /\ UNCHANGED <<dev, handles, sleepLog, steps, ioArgs>>
    /\ UNCHANGED history

\* line 29 and the assignment of line 80: return dev; dev = open_temper()
OtReturn ==
    /\ pc = "ot_return"
    /\ dev' = odev
    /\ odev' = None
    /\ devices' = <<>>
    /\ d' = 0
    /\ pc' = "opened"
    /\ UNCHANGED <<handles, exc, exit, sleepLog, steps, ioArgs>>
    /\ UNCHANGED history
    /\ UNCHANGED rtLocals

\* lines 84-85: the else branch; the while test comes next
OpenedMsg ==
    /\ pc = "opened"
    /\ pc' = "loop_head"
    /\ UNCHANGED <<dev, handles, exc, exit, sleepLog, steps, ioArgs>>
    /\ UNCHANGED history
    /\ UNCHANGED otLocals
    /\ UNCHANGED rtLocals

\* a retry without the sleep of line 83
NotFoundSleep_NoSleep ==
    /\ pc = "notfound_sleep"
    /\ pc' = "loop_head"
    /\ devices' = <<>>
    /\ UNCHANGED <<dev, odev, d, handles, exc, exit, sleepLog, steps, ioArgs>>
    /\ UNCHANGED history
    /\ UNCHANGED rtLocals

\* lines 81-83: dev is None: warn and time.sleep(2)
NotFoundSleep ==
    /\ pc = "notfound_sleep"
    /\ sleepLog' = Append(sleepLog, NOTFOUND_SLEEP_MS)
    /\ pc' = "loop_head"
    /\ devices' = <<>>
    /\ UNCHANGED <<dev, odev, d, handles, exc, exit, steps, ioArgs>>
    /\ UNCHANGED history
    /\ UNCHANGED rtLocals


(* ---------------------------- the exchange ---------------------------- *)
\* lines 54-59: build the frame, dev.write(buf), raise OSError on written <= 0
RtWrite ==
    /\ pc = "rt_write"
    /\ steps' = <<"write">>
    /\ ioArgs' = <<FRAME_LEN>>
    /\ sleepLog' = <<>>
    /\ everIO' = TRUE
    /\ \E written \in WriteResults :
        /\ stable => written > 0
        /\ IF written <= 0
           THEN /\ Throw("OSError", "write_le0", <<>>)
                /\ handles' = Invalidate(handles, dev)
           ELSE /\ pc' = "rt_settle"
                /\ UNCHANGED <<handles, exc, exit>>
                /\ UNCHANGED otLocals
                /\ UNCHANGED rtLocals
    /\ UNCHANGED <<dev, stable, everMatched, searched, intLog, everRecovered>>

\* line 57: dev.write itself raises
RtWriteRaises ==
    /\ pc = "rt_write"
    /\ ~stable
    /\ steps' = <<"write">>
    /\ ioArgs' = <<FRAME_LEN>>
    /\ sleepLog' = <<>>
    /\ everIO' = TRUE
    /\ \E cls \in LibExcClasses : Throw(cls, "write_raise", <<>>)
    /\ handles' = Invalidate(handles, dev)
    /\ UNCHANGED <<dev, stable, everMatched, searched, intLog, everRecovered>>

\* an exchange that reads right after the write, without the settle delay
RtSettle_Skipped ==
    /\ pc = "rt_settle"
    /\ pc' = "rt_read"
    /\ UNCHANGED <<dev, handles, exc, exit, sleepLog, steps, ioArgs>>
    /\ UNCHANGED history
    /\ UNCHANGED otLocals
    /\ UNCHANGED rtLocals

\* line 61: time.sleep(0.1)
RtSettle ==
    /\ pc = "rt_settle"
    /\ steps' = Append(steps, "settle")
    /\ ioArgs' = Append(ioArgs, SETTLE_SLEEP_MS)
    /\ sleepLog' = Append(sleepLog, SETTLE_SLEEP_MS)
    /\ pc' = "rt_read"
    /\ UNCHANGED <<dev, handles, exc, exit>>
    /\ UNCHANGED history
    /\ UNCHANGED otLocals
    /\ UNCHANGED rtLocals

\* lines 63-65: dev.read(64, timeout_ms=1000), raise OSError on an empty reply
RtRead ==
    /\ pc = "rt_read"
    /\ steps' = Append(steps, "read")
    /\ ioArgs' = Append(ioArgs, READ_TIMEOUT_MS)
    /\ \E reply \in ReadResults :
        /\ stable => Len(reply) >= MIN_REPORT_LEN
        /\ IF reply = <<>>
           THEN /\ Throw("OSError", "read_empty", <<>>)
                /\ handles' = Invalidate(handles, dev)
           ELSE /\ pc' = "rt_decode"
                /\ data' = reply
                /\ UNCHANGED <<handles, exc, exit, raw, temp_c, out>>
                /\ UNCHANGED otLocals
    /\ UNCHANGED <<dev, sleepLog>>
    /\ UNCHANGED history

\* line 63: dev.read itself raises
RtReadRaises ==
    /\ pc = "rt_read"
    /\ ~stable
    /\ steps' = Append(steps, "read")
    /\ ioArgs' = Append(ioArgs, READ_TIMEOUT_MS)
    /\ \E cls \in LibExcClasses : Throw(cls, "read_raise", <<>>)
    /\ handles' = Invalidate(handles, dev)
    /\ UNCHANGED <<dev, sleepLog>>
    /\ UNCHANGED history

\* lines 67-69 and the assignment of line 89: data8 = data[:8], decode it,
\* return temp_c, data8 (the reply read stays on record beside raw until the
\* values of this exchange are dropped)
RtDecode ==
    /\ pc = "rt_decode"
    /\ LET data8 == Slice(data, 0, REPORT_LEN)
           res == decode_temp_from_report(data8)
       IN  IF res.ok
           THEN /\ temp_c' = res.val
                /\ raw' = data8
                /\ pc' = "print_reading"
                /\ UNCHANGED <<data, exc, exit, out>>
                /\ UNCHANGED otLocals
           ELSE Throw(res.cls, "decode", data8)
    /\ UNCHANGED <<dev, handles, sleepLog, steps, ioArgs>>
    /\ UNCHANGED history

\* lines 90-93: print the reading, or the warning when it is not plausible
PrintReading ==
    /\ pc = "print_reading"
    /\ out' = ReadingLine(temp_c, raw)
    /\ pc' = "cadence_sleep"
    /\ UNCHANGED <<dev, handles, data, raw, temp_c, exc, exit, sleepLog, steps, ioArgs>>
    /\ UNCHANGED history
    /\ UNCHANGED otLocals

\* line 94: time.sleep(1.0); the values of this exchange are not read again
CadenceSleep ==
    /\ pc = "cadence_sleep"
    /\ sleepLog' = Append(sleepLog, CADENCE_SLEEP_MS)
    /\ pc' = "loop_head"
    /\ raw' = <<>>
    /\ temp_c' = None
    /\ out' = NoOut
    /\ data' = <<>>
    /\ UNCHANGED <<dev, handles, exc, exit, steps, ioArgs>>
    /\ UNCHANGED history
    /\ UNCHANGED otLocals

(* ------------------------- the except clauses ------------------------- *)
\* the same 1 s sleep in both clauses
Backoff_AlwaysOne(k) == IO_BACKOFF_MS

\* k is "io" for except (IOError, OSError), "ex" for except Exception
Backoff(k) == IF k = "io" THEN IO_BACKOFF_MS ELSE EXC_BACKOFF_MS

\* except Exception: pass (lines 102-103, 113-114, 125-126): is an exception of
\* class cls raised by dev.close() swallowed
Swallowed(cls) == IsSubclass(cls, "Exception")

\* lines 98-103 and 109-114: print, try dev.close(); an exception of close is
\* swallowed
HandlerClose(k) ==
    /\ pc = k \o "_close"
    /\ \E r \in {"ok"} \cup LibExcClasses :
        /\ handles' = CloseAttempt(handles, dev, r = "ok")
        /\ IF r = "ok" \/ Swallowed(r)
           THEN /\ pc' = k \o "_drop"
                /\ UNCHANGED <<exc, exit>>
                /\ UNCHANGED otLocals
                /\ UNCHANGED rtLocals
           ELSE Throw(r, "close", <<>>)
    /\ UNCHANGED <<dev, sleepLog, steps, ioArgs>>
    /\ UNCHANGED history

\* an except clause that closes the handle but keeps it in dev
HandlerDrop_KeepsDev(k) ==
    /\ pc = k \o "_drop"
    /\ pc' = k \o "_sleep"
    /\ UNCHANGED <<dev, handles, exc, exit, sleepLog, steps, ioArgs>>
    /\ UNCHANGED history
    /\ UNCHANGED otLocals
    /\ UNCHANGED rtLocals

\* lines 104 and 115: dev = None
HandlerDrop(k) ==
    /\ pc = k \o "_drop"
    /\ dev' = None
    /\ pc' = k \o "_sleep"
    /\ UNCHANGED <<handles, exc, exit, sleepLog, steps, ioArgs>>
    /\ UNCHANGED history
    /\ UNCHANGED otLocals
    /\ UNCHANGED rtLocals

\* lines 105 and 116: time.sleep(1) or time.sleep(2); the except clause ends
HandlerSleep(k) ==
    /\ pc = k \o "_sleep"
    /\ sleepLog' = Append(sleepLog, Backoff(k))
    /\ exc' = NoExc
    /\ pc' = "loop_head"
    /\ everRecovered' = TRUE
    /\ UNCHANGED <<dev, handles, exit, steps, ioArgs, stable, everMatched, everIO, searched,
                   intLog>>
    /\ UNCHANGED otLocals
    /\ UNCHANGED rtLocals

(* ------------------------ interrupt and shutdown ---------------------- *)
\* Ctrl-C: KeyboardInterrupt is raised at whatever statement runs
Interrupt ==
    /\ pc # "done"
    /\ ~stable
    /\ intLog' = Append(intLog, pc)
    /\ Throw("KeyboardInterrupt", "interrupt", <<>>)
    /\ UNCHANGED <<dev, handles, sleepLog, steps, ioArgs, stable, everMatched, everIO,
                   searched, everRecovered>>

\* lines 118-119: except KeyboardInterrupt: print
KbdHandler ==
    /\ pc = "kbd_handler"
    /\ exc' = NoExc
    /\ pc' = "finally"
    /\ UNCHANGED <<dev, handles, exit, sleepLog, steps, ioArgs>>
    /\ UNCHANGED history
    /\ UNCHANGED otLocals
    /\ UNCHANGED rtLocals

\* lines 120-126: finally: close dev when it is not None, swallow what close
\* raises; then main returns, or the pending exception leaves main
Finally ==
    /\ pc = "finally"
    /\ IF dev # None
       THEN \E r \in {"ok"} \cup LibExcClasses :
                /\ handles' = CloseAttempt(handles, dev, r = "ok")
                /\ IF r = "ok" \/ Swallowed(r)
                   THEN /\ pc' = "done"
                        /\ exit' = IF exc = NoExc THEN "normal" ELSE "raised"
                        /\ UNCHANGED exc
                        /\ UNCHANGED otLocals
                        /\ UNCHANGED rtLocals
                   ELSE Throw(r, "close", <<>>)
       ELSE /\ pc' = "done"
            /\ exit' = IF exc = NoExc THEN "normal" ELSE "raised"
            /\ UNCHANGED <<handles, exc>>
            /\ UNCHANGED otLocals
            /\ UNCHANGED rtLocals
    /\ UNCHANGED <<dev, sleepLog, steps, ioArgs>>
    /\ UNCHANGED history

\* the environment settles: from here on the device is listed, open, write
\* and read succeed with a full reply, and no interrupt arrives
Stabilise ==
    /\ ~stable
    /\ stable' = TRUE
    /\ UNCHANGED <<pc, dev, handles, exc, exit, sleepLog, steps, ioArgs, everMatched, everIO,
                   searched, intLog, everRecovered>>
    /\ UNCHANGED otLocals
    /\ UNCHANGED rtLocals

(* --------------------------- specifications --------------------------- *)
\* the steps of the program itself
MainStep ==
    \/ LoopHead
    \/ Enumerate
    \/ OpenPathOk
    \/ OpenPathRaises
    \/ SetNonblockingOk
    \/ SetNonblockingRaises
    \/ OtReturn
    \/ OpenedMsg
    \/ NotFoundSleep
    \/ RtWrite
    \/ RtWriteRaises
    \/ RtSettle
    \/ RtRead
    \/ RtReadRaises
    \/ RtDecode
    \/ PrintReading
    \/ CadenceSleep
    \/ \E k \in {"io", "ex"} : HandlerClose(k)
    \/ \E k \in {"io", "ex"} : HandlerDrop(k)
    \/ \E k \in {"io", "ex"} : HandlerSleep(k)
    \/ KbdHandler
    \/ Finally

Next == MainStep \/ Interrupt \/ Stabilise

Spec == Init /\ [][Next]_vars

\* a running interpreter keeps executing statements
FairSpec == Spec /\ WF_vars(MainStep)

TypeOK ==
    /\ pc \in OuterBody \cup {"kbd_handler", "finally", "done"}
    /\ dev \in Handles \cup {None}
    /\ odev \in Handles \cup {None}
    /\ devices \in Enumerations
    /\ d \in 0..Len(devices)
    /\ \A h \in Handles :
        /\ handles[h].st \in {"free", "open", "closed"}
        /\ handles[h].closes \in 0..2
        /\ handles[h].invalid \in BOOLEAN
    /\ data \in ReadResults
    /\ Len(raw) <= REPORT_LEN
    /\ temp_c \in Int
    /\ exit \in {"running", "normal", "raised"}
    /\ Len(sleepLog) <= 2
    /\ Len(steps) <= 3
    /\ Len(ioArgs) = Len(steps)
    /\ stable \in BOOLEAN
    /\ Len(intLog) <= 3
    /\ everRecovered \in BOOLEAN


(* ------------------------------- claims ------------------------------- *)
\* the program executes statement p to its end: no KeyboardInterrupt cuts it
Runs(p) == pc = p /\ pc' # p /\ exc'.cls # "KeyboardInterrupt"

\* where the failures of the exchange/decode step and of close are raised
ConnectedOrigins == {"write_le0", "write_raise", "read_empty", "read_raise",
                     "decode", "close"}
OpenOrigins == {"open_path", "set_nonblocking"}
LiveHandles == {h \in Handles : Live(h)}

\* C1: once a failure raised while Connected has been recovered (the except
\* clause closed, dropped the handle, slept and returned to the search), main
\* does not end unless a KeyboardInterrupt arrived.
C1_OnlyInterruptEndsMain ==
    (everRecovered /\ pc = "done") => intLog # <<>>

\* The except clauses themselves (C1, first part): every failure raised while
\* Connected (a write of <= 0 bytes, an empty read, a short reply, any other
\* exception of write or read) enters one of the two except clauses with main
\* running; the clause attempts one close, goes on whether close returns or
\* raises, sets dev to None, sleeps and returns to the loop head; and main
\* never ends with an exception that was raised while Connected.
HandlersRecover ==
    /\ [](exit = "raised" => exc.origin \notin ConnectedOrigins)
    /\ [][(exc' # exc /\ exc'.origin \in ConnectedOrigins)
            => /\ pc \in TryBody
               /\ pc' \in {"io_close", "ex_close"}
               /\ exit' = "running"
               /\ dev' = dev]_vars
    /\ [][\A k \in {"io", "ex"} :
            /\ Runs(k \o "_close")
                => /\ pc' = k \o "_drop"
                   /\ handles'[dev].closes = handles[dev].closes + 1
                   /\ exit' = "running"
            /\ Runs(k \o "_drop") => pc' = k \o "_sleep" /\ dev' = None
            /\ Runs(k \o "_sleep")
                => pc' = "loop_head" /\ dev' = None /\ exit' = "running"]_vars

\* HandlersRecover is not vacuous: back at the loop head without a handle and
\* running, after a handler whose close attempt raised
HandlersRecover_Reached ==
    /\ pc = "loop_head"
    /\ dev = None
    /\ exit = "running"
    /\ sleepLog = <<SETTLE_SLEEP_MS, EXC_BACKOFF_MS>>
    /\ \E h \in Handles : handles[h].closes = 1 /\ handles[h].st = "open"

\* C2: after open_path or set_nonblocking raised, main is still running in the
\* connect loop and no handle is left open.
C2_OpenErrorContained ==
    exc.origin \in OpenOrigins
        => pc \in SearchPcs /\ exit = "running" /\ LiveHandles = {}

\* C3: when main has ended after a single KeyboardInterrupt, delivered at a
\* statement of the loop (search, open_temper, exchange, sleep or handler), it
\* ended normally and every handle that was open got a close attempt.
C3_InterruptReleasesHandle ==
    (pc = "done" /\ Len(intLog) = 1 /\ intLog[1] \in OuterBody)
        => /\ exit = "normal"
           /\ \A h \in Handles : handles[h].st # "free" => handles[h].closes >= 1

\* C4: at most one handle is live; open_temper runs only while main's dev is
\* None; and when open_path has just opened a handle, every handle opened
\* before it has had a close attempt.
C4_AtMostOneLiveHandle ==
    /\ Cardinality(LiveHandles) <= 1
    /\ pc \in {"ot_enumerate", "ot_open_path", "ot_set_nonblocking", "ot_return"}
        => dev = None
    /\ odev # None
        => \A h \in Handles \ {odev} :
              handles[h].st # "free" => handles[h].closes >= 1

\* C4 witness: a second handle is held and live after the first one was closed
C4_Witness ==
    /\ dev # None
    /\ Live(dev)
    /\ pc = "rt_read"
    /\ \E h \in Handles \ {dev} : handles[h].closes = 1 /\ handles[h].st = "closed"

\* C5: a write that returns <= 0 enters the OSError clause with the handle
\* still held and not yet closed, before any read; when that clause reaches
\* its sleep the handle has had exactly one close attempt, dev is None and
\* main is running; after the sleep the loop head calls open_temper again.
C5_WriteErrorRecovery ==
    /\ [](pc = "io_sleep" /\ exc.origin = "write_le0"
            => /\ dev = None
               /\ handles[exc.h].closes = 1
               /\ exit = "running"
               /\ steps = <<"write">>)
    /\ [][(exc' # exc /\ exc'.origin = "write_le0")
            => /\ pc = "rt_write"
               /\ pc' = "io_close"
               /\ dev' = dev
               /\ exc'.h = dev
               /\ handles'[dev].closes = 0]_vars
    /\ [][(Runs("io_sleep") /\ exc.origin = "write_le0")
            => pc' = "loop_head" /\ sleepLog' = <<IO_BACKOFF_MS>>]_vars
    /\ [][(Runs("loop_head") /\ dev = None) => pc' = "ot_enumerate"]_vars

\* C5 witness: the OSError clause is at its sleep after a write of <= 0 bytes
C5_Witness ==
    /\ pc = "io_sleep"
    /\ exc.origin = "write_le0"
    /\ dev = None
    /\ handles[exc.h].closes = 1


\* C6: while no enumeration has contained a matching descriptor (and no
\* interrupt arrived), main holds no handle, is in the connect loop, has issued
\* no write or read, has raised nothing and is running; at the loop head the
\* sleeps since the previous search are exactly one sleep of 2 s; the sleep
\* returns to the loop head and the loop head searches again, every time.
C6_NotFoundRetriesForever ==
    /\ []((~everMatched /\ intLog = <<>>)
            => /\ dev = None
               /\ pc \in {"loop_head", "ot_enumerate", "notfound_sleep"}
               /\ ~everIO
               /\ steps = <<>>
               /\ exc = NoExc
               /\ exit = "running"
               /\ (pc = "loop_head" /\ searched) => sleepLog = <<2000>>
               /\ (pc = "loop_head" /\ ~searched) => sleepLog = <<>>
               /\ pc = "notfound_sleep" => sleepLog = <<>>)
    /\ [][(~everMatched' /\ Runs("ot_enumerate")) => pc' = "notfound_sleep"]_vars
    /\ [][(~everMatched /\ Runs("notfound_sleep")) => pc' = "loop_head"]_vars
    /\ [][(~everMatched /\ Runs("loop_head")) => pc' = "ot_enumerate"]_vars

\* C6 witness: a search is about to start after an earlier one found nothing
C6_Witness ==
    /\ pc = "loop_head"
    /\ searched
    /\ ~everMatched
    /\ intLog = <<>>
    /\ sleepLog = <<2000>>

\* C7: once the environment has settled (device listed, open, write and read
\* succeed with at least 4 bytes) and no interrupt has arrived, a reading is
\* printed again and again.
C7_ReadingsResume ==
    (stable /\ intLog = <<>>) ~> (pc = "cadence_sleep" /\ out # NoOut)

\* the signed 16-bit value of the unsigned 16-bit number u
Signed16(u) == IF u >= 32768 THEN u - 65536 ELSE u

\* C8: for a report of at least 4 bytes the decoded value, in 1/256 degree, is
\* the two's-complement value of byte[2]*256 + byte[3]; every report with the
\* same bytes 2 and 3 decodes to the same value; 0x19,0x00 gives 25.00 and
\* 0xFE,0x00 gives -2.00.
C8_DecodeValue ==
    pc = "print_reading"
        => /\ Len(raw) >= 4
           /\ temp_c = Signed16(raw[3] * 256 + raw[4])
           /\ \A r \in ReadResults :
                (Len(r) >= 4 /\ r[3] = raw[3] /\ r[4] = raw[4])
                    => decode_temp_from_report(r).val = temp_c
           /\ (raw[3] = 25 /\ raw[4] = 0) => temp_c * 100 = 2500 * 256
           /\ (raw[3] = 254 /\ raw[4] = 0) => temp_c * 100 = (-200) * 256

\* C8 witness: a report with bytes 0xFE,0x00 at offsets 2 and 3 was decoded
C8_Witness ==
    /\ pc = "print_reading"
    /\ raw[3] = 254
    /\ raw[4] = 0
    /\ temp_c = -512

\* C9: the decode step raises ValueError exactly for replies shorter than 4
\* bytes (3 bytes fail, 4 succeed) and then assigns no temperature and prints
\* nothing; a reading is only ever held or printed for a report of 4 bytes
\* or more.
C9_ShortReportRejected ==
    /\ [](pc \in {"print_reading", "cadence_sleep"} => Len(raw) >= 4)
    /\ [](out # NoOut => Len(out.raw) >= 4)
    /\ [](exc.origin = "decode" => exc.cls = "ValueError" /\ Len(exc.arg) < 4)
    /\ [][Runs("rt_decode")
            => IF Len(data) < 4
               THEN /\ exc'.cls = "ValueError"
                    /\ exc'.origin = "decode"
                    /\ pc' = "ex_close"
                    /\ temp_c' = None
                    /\ out' = NoOut
               ELSE /\ pc' = "print_reading"
                    /\ exc' = NoExc
                    /\ Len(raw') >= 4]_vars

\* C9 witness: a 3-byte reply was rejected with ValueError
C9_Witness ==
    /\ pc = "ex_close"
    /\ exc.cls = "ValueError"
    /\ exc.origin = "decode"
    /\ Len(exc.arg) = 3

\* C10: the line printed carries the decoded value of the report unchanged; it
\* is a warning exactly when the value is below -40.0 or above 125.0; printing
\* is no failure (the handle is held and live, nothing is raised, main runs);
\* the sleep that follows is 1.0 s whatever the line was, and the next
\* exchange starts on the same handle.
C10_ImplausibleStillReported ==
    /\ [](pc = "cadence_sleep"
            => /\ out.value = Signed16(raw[3] * 256 + raw[4])
               /\ out.raw = raw
               /\ out.kind = IF (-40) * 256 <= out.value /\ out.value <= 125 * 256
                             THEN "reading" ELSE "warn"
               /\ dev # None
               /\ Live(dev)
               /\ exc = NoExc
               /\ exit = "running")
    /\ [][Runs("cadence_sleep")
            => /\ pc' = "loop_head"
               /\ dev' = dev
               /\ handles' = handles
               /\ sleepLog' = Append(sleepLog, 1000)]_vars
    /\ [][(Runs("loop_head") /\ dev # None)
            => pc' = "rt_write" /\ dev' = dev /\ handles' = handles]_vars

\* C10 witness: a value above 125.0 was printed as a warning, handle still held
C10_Witness ==
    /\ pc = "cadence_sleep"
    /\ out.kind = "warn"
    /\ out.value > 125 * 256
    /\ dev # None


\* the statements of read_temperature
ExchangePcs == {"rt_write", "rt_settle", "rt_read", "rt_decode"}

\* C11: an exchange is write, then a 100 ms sleep, then a read with a 1000 ms
\* timeout, in this order: the read is issued only after a write that returned
\* more than 0 and after the settle sleep; a write of <= 0 bytes leaves the
\* exchange with the write as its only step; read_temperature is entered only
\* from the loop head and a failure always leaves it (no step is retried).
C11_ExchangeOrder ==
    /\ [](/\ \E n \in 0..3 : /\ steps = SubSeq(<<"write", "settle", "read">>, 1, n)
                             /\ ioArgs = SubSeq(<<64, 100, 1000>>, 1, n)
          /\ pc = "rt_settle" => steps = <<"write">>
          /\ pc = "rt_read" => steps = <<"write", "settle">> /\ sleepLog = <<100>>
          /\ pc = "rt_decode" => steps = <<"write", "settle", "read">>)
    /\ [][(exc' # exc /\ exc'.origin = "write_le0") => steps' = <<"write">>]_vars
    /\ [][(pc \in ExchangePcs /\ exc' # exc) => pc' \notin ExchangePcs]_vars
    /\ [][(pc' = "rt_write" /\ pc # "rt_write") => pc = "loop_head"]_vars
    /\ [][(pc \in ExchangePcs /\ pc' \in ExchangePcs /\ pc' # pc)
            => \/ pc = "rt_write" /\ pc' = "rt_settle"
               \/ pc = "rt_settle" /\ pc' = "rt_read"
               \/ pc = "rt_read" /\ pc' = "rt_decode"]_vars

\* C11 witness: a complete exchange: write, settle, read
C11_Witness ==
    /\ pc = "rt_decode"
    /\ steps = <<"write", "settle", "read">>
    /\ ioArgs = <<FRAME_LEN, SETTLE_SLEEP_MS, READ_TIMEOUT_MS>>
    /\ sleepLog = <<SETTLE_SLEEP_MS>>


\* descriptor i of the enumeration has the sensor's usage-page and usage
IsSensor(i) == devices[i].usage_page = 65280 /\ devices[i].usage = 1

\* C12: the descriptor open_temper opens is a matching one with no matching
\* descriptor before it in the enumeration, and the handle is opened on its
\* path; open_temper returns None exactly when no descriptor matches.
C12_FirstMatchOpened ==
    /\ pc \in {"ot_open_path", "ot_set_nonblocking", "ot_return"}
        => /\ d \in 1..Len(devices)
           /\ IsSensor(d)
           /\ \A i \in 1..(d - 1) : ~IsSensor(i)
    /\ pc \in {"ot_set_nonblocking", "ot_return"}
        => /\ odev # None
           /\ handles[odev].path = d
           /\ handles[odev].st = "open"
    /\ pc = "notfound_sleep"
        => /\ dev = None
           /\ odev = None
           /\ \A i \in 1..Len(devices) : ~IsSensor(i)

\* C12 witness: two matching descriptors were listed and the first was opened
C12_Witness ==
    /\ pc = "ot_set_nonblocking"
    /\ Len(devices) = 2
    /\ IsSensor(1)
    /\ IsSensor(2)
    /\ d = 1
    /\ handles[odev].path = 1


\* C13: a write of <= 0 bytes or an empty read enters the OSError clause with
\* the handle held; when the clause reaches its sleep the handle has had one
\* close attempt and dev is None; the sleep is 1 s, the only backoff sleep, and
\* the loop head then searches.
C13_IoErrorBackoffOneSecond ==
    /\ [][(exc' # exc /\ exc'.origin \in {"write_le0", "read_empty"})
            => /\ pc' = "io_close"
               /\ dev # None
               /\ dev' = dev
               /\ exc'.h = dev]_vars
    /\ [](exc.origin \in {"write_le0", "read_empty"}
            => /\ pc \in {"io_close", "io_drop", "io_sleep"}
               /\ pc = "io_sleep"
                    => /\ dev = None
                       /\ handles[exc.h].closes = 1
                       /\ sleepLog = IF exc.origin = "write_le0"
                                     THEN <<>> ELSE <<100>>)
    /\ [][(Runs("io_sleep") /\ exc.origin \in {"write_le0", "read_empty"})
            => /\ pc' = "loop_head"
               /\ dev' = None
               /\ sleepLog' = Append(sleepLog, 1000)]_vars
    /\ [][(Runs("loop_head") /\ dev = None /\ sleepLog \in {<<1000>>, <<100, 1000>>})
            => pc' = "ot_enumerate"]_vars

\* C13 witness: the OSError clause is at its sleep after a read timeout
C13_Witness ==
    /\ pc = "io_sleep"
    /\ exc.origin = "read_empty"
    /\ dev = None
    /\ handles[exc.h].closes = 1
    /\ sleepLog = <<SETTLE_SLEEP_MS>>

\* C14 as stated: the backoff after a failure is 1 s when the failure is an
\* I/O error or a decode error, and 2 s otherwise.
C14_DecodeIsClassified ==
    [][\A k \in {"io", "ex"} :
          Runs(k \o "_sleep")
              => sleepLog' = Append(sleepLog,
                                    IF exc.cls = "OSError" \/ exc.origin = "decode"
                                    THEN 1000 ELSE 2000)]_vars

\* C14 as amended: a decode error is a ValueError and takes the catch-all
\* clause: the backoff after it is 2 s, as after every failure that is not an
\* OSError; the backoff is 1 s exactly after an OSError.
C14_BackoffByExceptionClass ==
    /\ [](exc.origin = "decode"
            => exc.cls = "ValueError" /\ pc \in {"ex_close", "ex_drop", "ex_sleep"})
    /\ [][\A k \in {"io", "ex"} :
            Runs(k \o "_sleep")
                => sleepLog' = Append(sleepLog,
                                      IF exc.cls = "OSError" THEN 1000 ELSE 2000)]_vars
    /\ [][(pc \in {"io_sleep", "ex_sleep"} /\ exc.origin = "decode" /\ pc' = "loop_head")
            => sleepLog' = <<100, 2000>>]_vars

\* C14 witness: the catch-all clause is at its sleep after a short reply
C14_Witness ==
    /\ pc = "ex_sleep"
    /\ exc.origin = "decode"
    /\ Len(exc.arg) \in 1..3
    /\ sleepLog = <<SETTLE_SLEEP_MS>>

\* C15: a short reply, or an exception of write or read that is no OSError,
\* enters the catch-all clause with the handle held; the clause attempts one
\* close, sets dev to None and sleeps 2 s, the only backoff sleep, before the
\* loop head searches again.
C15_OtherFailureBackoffTwoSeconds ==
    /\ [][(/\ exc' # exc
           /\ \/ exc'.origin = "decode"
              \/ exc'.origin \in {"write_raise", "read_raise"} /\ exc'.cls # "OSError")
            => /\ pc' = "ex_close"
               /\ dev # None
               /\ dev' = dev
               /\ exc'.h = dev]_vars
    /\ [](pc = "ex_sleep"
            => /\ dev = None
               /\ handles[exc.h].closes = 1
               /\ exit = "running"
               /\ Len(sleepLog) <= 1)
    /\ [][Runs("ex_close")
            => pc' = "ex_drop" /\ handles'[dev].closes = handles[dev].closes + 1]_vars
    /\ [][Runs("ex_drop") => pc' = "ex_sleep" /\ dev' = None]_vars
    /\ [][Runs("ex_sleep")
            => /\ pc' = "loop_head"
               /\ dev' = None
               /\ sleepLog' = Append(sleepLog, 2000)]_vars
    /\ [][(Runs("loop_head") /\ dev = None /\ sleepLog \in {<<2000>>, <<100, 2000>>}
           /\ everRecovered)
            => pc' = "ot_enumerate"]_vars

\* C15 witness: the catch-all clause is at its sleep after dev.read raised an
\* exception that is no OSError
C15_Witness ==
    /\ pc = "ex_sleep"
    /\ exc.origin = "read_raise"
    /\ exc.cls = "RuntimeError"
    /\ dev = None
    /\ handles[exc.h].closes = 1


\* the first n elements of s, or all of s when it is shorter
Prefix(s, n) == [i \in 1..(IF Len(s) < n THEN Len(s) ELSE n) |-> s[i]]

\* C16: the report returned by a successful exchange is the first min(n, 8)
\* bytes of the n bytes read, never longer than 8; the temperature is decoded
\* from it and the reading line shows it.
C16_ReportIsFirstEightBytes ==
    /\ pc \in {"print_reading", "cadence_sleep"}
        => /\ raw = Prefix(data, 8)
           /\ Len(raw) <= 8
           /\ Len(raw) = IF Len(data) < 8 THEN Len(data) ELSE 8
           /\ temp_c = Signed16(raw[3] * 256 + raw[4])
    /\ pc = "cadence_sleep" => out.raw = Prefix(data, 8)

\* C16 witness: a reply of more than 8 bytes was cut to its first 8
C16_Witness ==
    /\ pc = "cadence_sleep"
    /\ Len(data) > 8
    /\ Len(out.raw) = 8
    /\ out.raw = SubSeq(data, 1, 8)

\* C17: while read_temperature runs, main's dev is a handle that is open and
\* has had no close attempt; a write or read is only issued on such a handle.
C17_NoUseAfterClose ==
    /\ [](pc \in ExchangePcs
            => /\ dev # None
               /\ handles[dev].st = "open"
               /\ handles[dev].closes = 0)
    /\ [][steps' # steps
            => /\ pc \in {"rt_write", "rt_settle", "rt_read"}
               /\ dev # None
               /\ handles[dev].closes = 0
               /\ dev' = dev]_vars

\* C17 witness: a write is about to be issued on a second handle, after the
\* first one was closed and dropped
C17_Witness ==
    /\ pc = "rt_write"
    /\ dev # None
    /\ handles[dev].closes = 0
    /\ \E h \in Handles \ {dev} : handles[h].closes >= 1

\* C18: no handle has had more than one close attempt.
C18_CloseAtMostOnce ==
    \A h \in Handles : handles[h].closes <= 1

====
